---- MODULE Spec2Model ----
(***************************************************************************)
(* Model of gpython's object substrate: the Dict mapping type (py/dict.go), *)
(* the Function object (py/function.go) and the eval/exec dispatcher       *)
(* (vm/builtin.go).                                                        *)
(*                                                                         *)
(* Dicts are Go maps, i.e. reference values: the model keeps a heap of     *)
(* mapping contents indexed by reference, and a py.Dict value is a         *)
(* reference into it.                                                      *)
(***************************************************************************)
EXTENDS Naturals, Sequences, FiniteSets, TLC

VARIABLES heap, last, env, copied, fn, frames, calls

vars == <<heap, last, env, copied, fn, frames, calls>>

(***************************************************************************)
(* Bounds of the model.                                                    *)
(***************************************************************************)
\* largest number of free variables / closure cells of a code unit
MaxFree == 1
\* longest argument tuple handed to eval/exec
MaxArgs == 4
\* number of Dict objects the Dict scenario may allocate with Copy
MaxDicts == 3
\* number of Function invocations (each allocates a locals Dict)
MaxCalls == 3

(***************************************************************************)
(* py.Object values.  Every value is a record with the same three fields   *)
(* so that any two values can be compared: t is the dynamic Go type, s the *)
(* text (a sequence of lexical symbols) and n a number (the integer, the   *)
(* heap reference of a Dict, the free-variable count of a Code).           *)
(***************************************************************************)
Nil == [t |-> "nil", s |-> <<>>, n |-> 0]
None == [t |-> "none", s |-> <<>>, n |-> 0]
NotImplemented == [t |-> "notimplemented", s |-> <<>>, n |-> 0]
True == [t |-> "bool", s |-> <<>>, n |-> 1]
False == [t |-> "bool", s |-> <<>>, n |-> 0]
Int(i) == [t |-> "int", s |-> <<>>, n |-> i]
Text(cs) == [t |-> "str", s |-> cs, n |-> 0]
String(name) == Text(<<name>>)
Bytes(cs) == [t |-> "bytes", s |-> cs, n |-> 0]
Dict(ref) == [t |-> "dict", s |-> <<>>, n |-> ref]
\* a *py.Code: what the unit does when evaluated, and len(Freevars)
Code(body, nfree) == [t |-> "code", s |-> body, n |-> nfree]

\* an error value: nil, or an exception of some kind; mode is the %s of the
\* message format when the message names the builtin, "" otherwise
NoErr == [kind |-> "", mode |-> "", msg |-> ""]
ExceptionNewf(kind, mode, msg) == [kind |-> kind, mode |-> mode, msg |-> msg]

(***************************************************************************)
(* Go map primitives on the contents of one Dict.                          *)
(***************************************************************************)
EmptyMap == <<>>
MapHas(d, k) == k \in DOMAIN d
MapSet(d, k, v) == [x \in DOMAIN d \cup {k} |-> IF x = k THEN v ELSE d[x]]
MapDelete(d, k) == [x \in DOMAIN d \ {k} |-> d[x]]
MapLen(d) == Cardinality(DOMAIN d)

\* a call's outcome: the heap after it, the value and the error returned
Out(h, val, err) == [heap |-> h, val |-> val, err |-> err]

(***************************************************************************)
(* py/dict.go: the type Dict map[Object]Object and its methods.  d is the  *)
(* reference of the receiver, h the heap.                                  *)
(***************************************************************************)
\* NewDict(): make(Dict)
NewDict(h) == Out(Append(h, EmptyMap), Dict(Len(h) + 1), NoErr)

CopyAliasing(d, h) == Out(h, Dict(d), NoErr)

\* d.Copy(): a new map filled from a range over d
Copy(d, h) ==
    Out(Append(h, [k \in DOMAIN h[d] |-> h[d][k]]), Dict(Len(h) + 1), NoErr)

\* d.M__getitem__(key)
M__getitem__(d, key, h) ==
    IF key.t = "str" /\ MapHas(h[d], key)
    THEN Out(h, h[d][key], NoErr)
    ELSE Out(h, Nil, ExceptionNewf("KeyError", "", "%v"))

\* d.M__setitem__(key, value)
M__setitem__(d, key, value, h) ==
    Out([h EXCEPT ![d] = MapSet(@, key, value)], None, NoErr)

\* Go's delete(d, key), how a key is removed from a Dict
Delete(d, key, h) == Out([h EXCEPT ![d] = MapDelete(@, key)], Nil, NoErr)

\* py.Eq(a, b) on the scalar values of the model: equal values are equal,
\* anything else ends in the identity comparison
Eq(a, b) == IF a = b THEN True ELSE False

\* the range loop of M__eq__ over the keys of a not yet visited; Go visits
\* them in no particular order, and the outcome does not depend on it
RECURSIVE EqRange(_, _, _)
EqRange(keys, a, b) ==
    IF keys = {} THEN True
    ELSE LET k == CHOOSE x \in keys : TRUE
         IN  IF ~MapHas(b, k) THEN False
             ELSE IF Eq(a[k], b[k]) = False THEN False
             ELSE EqRange(keys \ {k}, a, b)

M__eq__AnyLength(d, other, h) ==
    IF other.t # "dict" THEN Out(h, NotImplemented, NoErr)
    ELSE Out(h, EqRange(DOMAIN h[d], h[d], h[other.n]), NoErr)

\* a.M__eq__(other)
M__eq__(d, other, h) ==
    IF other.t # "dict" THEN Out(h, NotImplemented, NoErr)
    ELSE IF MapLen(h[d]) # MapLen(h[other.n]) THEN Out(h, False, NoErr)
    ELSE Out(h, EqRange(DOMAIN h[d], h[d], h[other.n]), NoErr)

\* a.M__ne__(other)
M__ne__(d, other, h) ==
    LET res == M__eq__(d, other, h).val
    IN  IF res = NotImplemented THEN Out(h, res, NoErr)
        ELSE IF res = True THEN Out(h, False, NoErr)
        ELSE Out(h, True, NoErr)

\* a.M__contains__(other)
M__contains__(d, other, h) ==
    IF other.t # "str"
    THEN Out(h, Nil, ExceptionNewf("KeyError", "", "FIXME can only have string keys!: %v"))
    ELSE IF MapHas(h[d], other) THEN Out(h, True, NoErr)
    ELSE Out(h, False, NoErr)

(***************************************************************************)
(* py/function.go: the Function object.  Globals and Dict are references   *)
(* into the heap, Closure is a tuple of cells, absent fields are Nil (a    *)
(* nil Tuple has length 0).                                                *)
(***************************************************************************)
Tuple(cells) == [t |-> "tuple", s |-> cells, n |-> 0]
TupleLen(tuple) == Len(tuple.s)

\* NewFunction(code, globals, qualname); name and consts are code.Name and
\* code.Consts.  The Function comes with the heap holding its new Dict.
NewFunction(code, name, consts, globals, qualname, h) ==
    LET doc == IF Len(consts) >= 1 /\ consts[1].t = "str" THEN consts[1] ELSE None
        module == IF MapHas(h[globals], String("__name__"))
                  THEN h[globals][String("__name__")]
                  ELSE None
        dict == NewDict(h)
    IN  [heap |-> dict.heap,
         f |-> [Code |-> code,
                Qualname |-> IF qualname = "" THEN name ELSE qualname,
                Globals |-> globals,
                Name |-> name,
                Doc |-> doc,
                Module |-> module,
                Dict |-> dict.val.n,
                Defaults |-> Nil, KwDefaults |-> Nil, Closure |-> Nil,
                Annotations |-> Nil]]

M__call__SharedLocals(f, h) ==
    [heap |-> h, code |-> f.Code, globals |-> f.Globals, locals |-> f.Dict,
     defaults |-> f.Defaults, kwdefaults |-> f.KwDefaults, closure |-> f.Closure]

\* f.M__call__(args, kwargs) up to the call of VmEvalCodeEx: what the
\* Evaluator is handed, and the heap with the NewDict() made for locals
M__call__(f, h) ==
    [heap |-> NewDict(h).heap, code |-> f.Code, globals |-> f.Globals,
     locals |-> NewDict(h).val.n,
     defaults |-> f.Defaults, kwdefaults |-> f.KwDefaults, closure |-> f.Closure]

SetCodeAtLeast(f, value) ==
    IF value.t # "code"
    THEN [f |-> f, err |-> ExceptionNewf("TypeError", "",
                                         "__code__ must be set to a code object")]
    ELSE IF value.n > TupleLen(f.Closure)
    THEN [f |-> f, err |-> ExceptionNewf("ValueError", f.Name,
                              "%s() requires a code object with %d free vars, not %d")]
    ELSE [f |-> [f EXCEPT !.Code = value], err |-> NoErr]

\* FunctionType.Dict["__code__"].Fset(self, value); value.n is
\* len(code.Freevars)
SetCode(f, value) ==
    IF value.t # "code"
    THEN [f |-> f, err |-> ExceptionNewf("TypeError", "",
                                         "__code__ must be set to a code object")]
    ELSE IF value.n # TupleLen(f.Closure)
    THEN [f |-> f, err |-> ExceptionNewf("ValueError", f.Name,
                              "%s() requires a code object with %d free vars, not %d")]
    ELSE [f |-> [f EXCEPT !.Code = value], err |-> NoErr]

(***************************************************************************)
(* Collaborators of the dispatcher that live outside the three files       *)
(* modelled here: argument unpacking, the compiler and the evaluator.      *)
(***************************************************************************)
\* py.UnpackTuple(args, kwargs, mode, min, max, ...) with empty kwargs: the
\* arity check.  The optional results keep their initial value (py.None)
\* when the tuple is shorter, which Arg supplies.
UnpackTuple(args, mode, min, max) ==
    IF Len(args) < min
    THEN ExceptionNewf("TypeError", mode, "expected at least min arguments")
    ELSE IF Len(args) > max
    THEN ExceptionNewf("TypeError", mode, "expected at most max arguments")
    ELSE NoErr

Arg(args, i) == IF i <= Len(args) THEN args[i] ELSE None

\* strings.TrimLeft(s, cutset)
RECURSIVE TrimLeft(_, _)
TrimLeft(s, cutset) ==
    IF s # <<>> /\ Head(s) \in cutset THEN TrimLeft(Tail(s), cutset) ELSE s

\* py.Compile(src, "<string>", mode, 0, true): the external compiler, as a
\* table over the source texts of the model.  An expression compiles in
\* both modes, a statement in "exec" mode only; text that still starts
\* with white space, or anything else, is a syntax error.  The text "free"
\* stands for whatever source the compiler answers with a unit that has a
\* free variable.
Compile(src, mode) ==
    LET ok(c) == [code |-> c, err |-> NoErr]
        bad == [code |-> Nil, err |-> ExceptionNewf("SyntaxError", "", "invalid syntax")]
    IN  IF src = <<"1">> THEN ok(Code(<<"const">>, 0))
        ELSE IF src = <<"free">> THEN ok(Code(<<"const">>, 1))
        ELSE IF mode # "exec" THEN bad
        ELSE IF src = <<"x", "=", "1">> THEN ok(Code(<<"store_name", "x">>, 0))
        ELSE IF src = <<"__builtins__", "=", "1">>
        THEN ok(Code(<<"store_name", "__builtins__">>, 0))
        ELSE IF src = <<"raise">> THEN ok(Code(<<"raise">>, 0))
        ELSE bad

\* vm.EvalCode(code, globals, locals): the external evaluator.  It runs the
\* unit against the two namespaces it was handed (by reference) and
\* answers the unit's value or its exception.  ev records the invocation.
EvalCode(code, g, l, h) ==
    LET op == code.s[1]
        out == IF op = "const"
               THEN [val |-> Int(1), err |-> NoErr, heap |-> h]
               ELSE IF op = "store_name"
               THEN [val |-> None, err |-> NoErr,
                     heap |-> [h EXCEPT ![l] = MapSet(@, String(code.s[2]), Int(1))]]
               ELSE IF op = "store_global"
               THEN [val |-> None, err |-> NoErr,
                     heap |-> [h EXCEPT ![g] = MapSet(@, String(code.s[2]), Int(1))]]
               ELSE [val |-> Nil,
                     err |-> ExceptionNewf("RuntimeError", "", "raised by the unit"),
                     heap |-> h]
    IN  [val |-> out.val, err |-> out.err, heap |-> out.heap,
         ev |-> [invoked |-> TRUE, code |-> code, g |-> g, l |-> l, heapIn |-> h,
                 val |-> out.val, err |-> out.err]]

(***************************************************************************)
(* vm/builtin.go                                                           *)
(***************************************************************************)
NotInvoked == [invoked |-> FALSE, code |-> Nil, g |-> 0, l |-> 0, heapIn |-> <<>>,
               val |-> Nil, err |-> NoErr]

\* return nil, err
Fail(err, h) == [val |-> Nil, err |-> err, heap |-> h, ev |-> NotInvoked]

\* lines 25-32, the globals half
ResolveGlobals(globals, currentGlobals) ==
    IF globals = None THEN Dict(currentGlobals) ELSE globals

ResolveLocalsIgnoringGlobals(globals, locals, currentLocals) ==
    IF locals = None THEN Dict(currentLocals) ELSE locals

\* lines 25-32, the locals half
ResolveLocals(globals, locals, currentLocals) ==
    IF globals = None
    THEN IF locals = None THEN Dict(currentLocals) ELSE locals
    ELSE IF locals = None THEN globals ELSE locals

\* py.DictCheck(obj): err == nil
DictCheck(obj) == obj.t = "dict"

SetBuiltinsAlways(d, builtins) == MapSet(d, String("__builtins__"), Dict(builtins))

\* lines 43-46: set __builtins__ if not set
SetBuiltins(d, builtins) ==
    IF MapHas(d, String("__builtins__"))
    THEN d
    ELSE MapSet(d, String("__builtins__"), Dict(builtins))

\* code.GetNumFree()
GetNumFree(code) == code.n

RunUnitUnchecked(code, g, l, mode, h) == EvalCode(code, g, l, h)

RunUnitThenCheck(code, g, l, mode, h) ==
    LET r == EvalCode(code, g, l, h)
    IN  IF GetNumFree(code) > 0
        THEN [r EXCEPT !.val = Nil,
                       !.err = ExceptionNewf("TypeError", mode,
                                  "code passed to %s() may not contain free variables")]
        ELSE r

\* lines 61-72: the unit is in hand
RunUnit(code, g, l, mode, h) ==
    IF GetNumFree(code) > 0
    THEN Fail(ExceptionNewf("TypeError", mode,
                            "code passed to %s() may not contain free variables"), h)
    ELSE EvalCode(code, g, l, h)

\* lines 48-68: from the command to the unit
CompileCmd(cmd, mode) ==
    IF cmd.t = "code" THEN [code |-> cmd, err |-> NoErr]
    ELSE IF cmd.t \in {"str", "bytes"}
    THEN Compile(TrimLeft(cmd.s, {" ", "\t"}), mode)
    ELSE [code |-> Nil,
          err |-> ExceptionNewf("TypeError", mode,
                                "%s() arg 1 must be a string, bytes or code object")]

builtinEvalOrExec(args, currentLocals, currentGlobals, builtins, mode, h) ==
    LET uerr == UnpackTuple(args, mode, 1, 3)
        cmd == Arg(args, 1)
        globals == ResolveGlobals(Arg(args, 2), currentGlobals)
        locals == ResolveLocals(Arg(args, 2), Arg(args, 3), currentLocals)
    IN  IF uerr # NoErr THEN Fail(uerr, h)
        ELSE IF ~DictCheck(globals)
        THEN Fail(ExceptionNewf("TypeError", "", "globals must be a dict"), h)
        ELSE IF ~DictCheck(locals)
        THEN Fail(ExceptionNewf("TypeError", "", "locals must be a dict"), h)
        ELSE LET h1 == [h EXCEPT ![globals.n] = SetBuiltins(@, builtins)]
                 unit == CompileCmd(cmd, mode)
             IN  IF unit.err # NoErr THEN Fail(unit.err, h1)
                 ELSE RunUnit(unit.code, globals.n, locals.n, mode, h1)

builtinEval(args, currentLocals, currentGlobals, builtins, h) ==
    builtinEvalOrExec(args, currentLocals, currentGlobals, builtins, "eval", h)

builtinExecPassingValue(args, currentLocals, currentGlobals, builtins, h) ==
    builtinEvalOrExec(args, currentLocals, currentGlobals, builtins, "exec", h)

builtinExec(args, currentLocals, currentGlobals, builtins, h) ==
    LET r == builtinEvalOrExec(args, currentLocals, currentGlobals, builtins, "exec", h)
    IN  IF r.err # NoErr THEN [r EXCEPT !.val = Nil] ELSE [r EXCEPT !.val = None]

(***************************************************************************)
(* The eval/exec scenario: a caller with its builtins, its current globals *)
(* and locals, and two further dicts g and l it may pass explicitly.       *)
(***************************************************************************)
Refs == [builtins |-> 1, cg |-> 2, cl |-> 3, g |-> 4, l |-> 5]

BuiltinsKey == String("__builtins__")

\* a globals dict before any call: without the entry, with the builtins
\* already in place, or with an entry the program stored itself
InitGlobals ==
    { EmptyMap,
      MapSet(EmptyMap, BuiltinsKey, Dict(Refs.builtins)),
      MapSet(EmptyMap, BuiltinsKey, Int(2)) }

Units ==
    { Code(<<"const">>, n) : n \in 0..MaxFree }
    \cup { Code(<<"store_global", "y">>, 0), Code(<<"raise">>, 0) }

Cmds ==
    Units \cup
    { Text(<<" ", "\t", "1">>), Bytes(<<"\t", "x", "=", "1">>),
      Text(<<"__builtins__", "=", "1">>), Text(<<"free">>), Text(<<"!">>), Int(5) }

GlobalsArgs == { None, Dict(Refs.g), Int(5) }
LocalsArgs == { None, Dict(Refs.l), Int(5) }

RECURSIVE Pad(_, _)
Pad(args, n) == IF Len(args) >= n THEN args ELSE Pad(Append(args, None), n)

ArgTuples ==
    { <<>> }
    \cup { <<c>> : c \in Cmds }
    \cup { <<c, g>> : c \in Cmds, g \in GlobalsArgs }
    \cup { <<c, g, l>> : c \in Cmds, g \in GlobalsArgs, l \in LocalsArgs }
    \cup { Pad(<<c>>, n) : c \in Cmds, n \in 4..MaxArgs }

NoCall == [op |-> "idle", args |-> <<>>, pre |-> <<>>,
           val |-> Nil, err |-> NoErr, ev |-> NotInvoked]

\* the caller: its builtins, its current globals and its current locals,
\* which at module level are the globals themselves
Init ==
    /\ \E cg \in InitGlobals, g \in InitGlobals :
          heap = << MapSet(EmptyMap, String("len"), Int(1)), cg, EmptyMap, g, EmptyMap >>
    /\ \E cl \in {Refs.cl, Refs.cg} :
          env = [builtins |-> Refs.builtins, currentGlobals |-> Refs.cg,
                 currentLocals |-> cl]
    /\ last = NoCall
    /\ copied = <<>>
    /\ fn = Nil
    /\ frames = <<>>
    /\ calls = <<>>

Returned(mode, args, r) ==
    /\ heap' = r.heap
    /\ last' = [op |-> mode, args |-> args, pre |-> heap,
                val |-> r.val, err |-> r.err, ev |-> r.ev]
    /\ UNCHANGED <<env, copied, fn, frames, calls>>

\* the caller calls eval(*args)
Eval ==
    /\ last.op = "idle"
    /\ \E args \in ArgTuples :
          Returned("eval", args,
                   builtinEval(args, env.currentLocals, env.currentGlobals,
                               env.builtins, heap))

\* the caller calls exec(*args)
Exec ==
    /\ last.op = "idle"
    /\ \E args \in ArgTuples :
          Returned("exec", args,
                   builtinExec(args, env.currentLocals, env.currentGlobals,
                               env.builtins, heap))

\* the caller takes the result and goes on
Continue ==
    /\ last.op \in {"eval", "exec"}
    /\ last' = NoCall
    /\ UNCHANGED <<heap, env, copied, fn, frames, calls>>

Next == Eval \/ Exec \/ Continue

Spec == Init /\ [][Next]_vars

(***************************************************************************)
(* Properties of the eval/exec dispatcher, stated on the call that has     *)
(* just returned (last) and the heap before (last.pre) and after (heap).   *)
(***************************************************************************)
Called == last.op \in {"eval", "exec"}
ArityOk == Len(last.args) \in 1..3
GlobalsGiven == Len(last.args) >= 2 /\ last.args[2] # None
LocalsGiven == Len(last.args) >= 3 /\ last.args[3] # None

\* the namespaces the call is documented to use
DocGlobals == IF GlobalsGiven THEN last.args[2] ELSE Dict(env.currentGlobals)
DocLocals ==
    IF LocalsGiven THEN last.args[3]
    ELSE IF GlobalsGiven THEN last.args[2]
    ELSE Dict(env.currentLocals)
NamespacesOk == ArityOk /\ DocGlobals.t = "dict" /\ DocLocals.t = "dict"

\* C1: the Evaluator is handed, for (globals absent, locals absent) the
\* caller's current globals and locals; for (absent, given) the current
\* globals and the given locals; for (given, absent) the given globals as
\* both namespaces, one and the same mapping, so that a name the unit
\* stores through locals is found in globals; for (given, given) each as
\* given.
C1_NamespaceResolution ==
    (Called /\ last.ev.invoked) =>
        /\ (~GlobalsGiven /\ ~LocalsGiven) =>
              /\ last.ev.g = env.currentGlobals
              /\ last.ev.l = env.currentLocals
        /\ (~GlobalsGiven /\ LocalsGiven) =>
              /\ last.ev.g = env.currentGlobals
              /\ Dict(last.ev.l) = last.args[3]
        /\ (GlobalsGiven /\ ~LocalsGiven) =>
              /\ Dict(last.ev.g) = last.args[2]
              /\ last.ev.l = last.ev.g
              /\ (last.ev.code.s[1] = "store_name" /\ last.err = NoErr) =>
                    MapHas(heap[last.args[2].n], String(last.ev.code.s[2]))
        /\ (GlobalsGiven /\ LocalsGiven) =>
              /\ Dict(last.ev.g) = last.args[2]
              /\ Dict(last.ev.l) = last.args[3]

\* exec("x = 1", g): the binding made through locals shows in g
C1_Witness ==
    /\ Called /\ last.ev.invoked /\ GlobalsGiven /\ ~LocalsGiven
    /\ last.ev.code.s = <<"store_name", "x">>
    /\ MapHas(heap[Refs.g], String("x"))
    /\ ~MapHas(last.pre[Refs.g], String("x"))

\* what the documented globals holds under "__builtins__" once it has been
\* looked after: the entry it had before the call or, failing that, the
\* caller's builtins
BuiltinsEntryIn(h) ==
    /\ MapHas(h[DocGlobals.n], BuiltinsKey)
    /\ h[DocGlobals.n][BuiltinsKey] =
          IF MapHas(last.pre[DocGlobals.n], BuiltinsKey)
          THEN last.pre[DocGlobals.n][BuiltinsKey]
          ELSE Dict(env.builtins)

UnitRebindsBuiltins ==
    /\ last.ev.invoked
    /\ \/ last.ev.code.s = <<"store_name", "__builtins__">> /\ last.ev.l = last.ev.g
       \/ last.ev.code.s = <<"store_global", "__builtins__">>

HasUnit ==
    /\ Len(last.args) >= 1
    /\ \/ last.args[1].t = "code"
       \/ /\ last.args[1].t \in {"str", "bytes"}
          /\ Compile(TrimLeft(last.args[1].s, {" ", "\t"}), last.op).err = NoErr
TheUnit ==
    IF last.args[1].t = "code" THEN last.args[1]
    ELSE Compile(TrimLeft(last.args[1].s, {" ", "\t"}), last.op).code

FreeVariablesError ==
    [kind |-> "TypeError", mode |-> last.op,
     msg |-> "code passed to %s() may not contain free variables"]

\* C5: in both modes, a call whose unit (precompiled, or compiled from text
\* or bytes) has a free variable fails with a TypeError and never invokes
\* the Evaluator; when the arguments and namespaces are in order the error
\* is the one naming the mode and "may not contain free variables"; the
\* Evaluator is only ever invoked with a unit without free variables.
C5_FreeVariableRejection ==
    Called =>
        /\ last.ev.invoked => last.ev.code.n = 0
        /\ (HasUnit /\ TheUnit.n > 0) =>
              /\ ~last.ev.invoked
              /\ last.err.kind = "TypeError"
              /\ last.val = Nil
              /\ NamespacesOk => last.err = FreeVariablesError

\* a unit compiled from text turns out to have a free variable
C5_Witness ==
    /\ Called /\ NamespacesOk /\ HasUnit
    /\ last.args[1].t = "str" /\ TheUnit.n > 0
    /\ last.err = FreeVariablesError

\* C6: a successful exec returns None whatever the Evaluator produced, and
\* a name the unit bound in locals is in that mapping after the call; a
\* successful eval returns the Evaluator's value; when the Evaluator fails
\* both modes return its error unchanged and no value (exec no None).
C6_ExecReturnValue ==
    Called =>
        /\ (last.op = "exec" /\ last.err = NoErr) =>
              /\ last.val = None
              /\ last.ev.invoked /\ last.ev.err = NoErr
              /\ last.ev.code.s[1] = "store_name" =>
                    /\ MapHas(heap[DocLocals.n], String(last.ev.code.s[2]))
                    /\ heap[DocLocals.n][String(last.ev.code.s[2])] = Int(1)
        /\ (last.op = "eval" /\ last.err = NoErr) =>
              /\ last.ev.invoked
              /\ last.val = last.ev.val
        /\ (last.ev.invoked /\ last.ev.err # NoErr) =>
              /\ last.err = last.ev.err
              /\ last.val = Nil

\* exec("x = 1", g, l) leaves l["x"] == 1 and returns None
C6_Witness ==
    /\ last.op = "exec" /\ last.err = NoErr /\ last.val = None
    /\ GlobalsGiven /\ LocalsGiven
    /\ last.ev.code.s = <<"store_name", "x">>
    /\ ~MapHas(last.pre[Refs.l], String("x"))
    /\ heap[Refs.l][String("x")] = Int(1)

\* exec of a unit for which the Evaluator produces a value
C6_WitnessValueDropped ==
    last.op = "exec" /\ last.ev.invoked /\ last.ev.val = Int(1) /\ last.val = None

\* a failure the dispatcher detects itself
DispatcherFailure ==
    \/ ~ArityOk
    \/ DocGlobals.t # "dict"
    \/ DocLocals.t # "dict"
    \/ last.args[1].t \notin {"code", "str", "bytes"}
    \/ ~HasUnit
    \/ TheUnit.n > 0

\* C10: when the dispatcher detects the failure itself (argument count,
\* globals or locals not a dict, unsupported source, compiler error, unit
\* with free variables) the call fails, the Evaluator has not been invoked
\* and every mapping is as before the call, except that the resolved
\* globals may have gained the "__builtins__" entry.
C10_NoPartialFailure ==
    (Called /\ DispatcherFailure) =>
        /\ last.err # NoErr
        /\ ~last.ev.invoked
        /\ \A r \in DOMAIN heap :
              \/ heap[r] = last.pre[r]
              \/ /\ NamespacesOk
                 /\ r = DocGlobals.n
                 /\ ~MapHas(last.pre[r], BuiltinsKey)
                 /\ heap[r] = MapSet(last.pre[r], BuiltinsKey, Dict(env.builtins))

\* a compiler error after the injection has been made
C10_Witness ==
    /\ Called /\ NamespacesOk /\ ~HasUnit /\ last.args[1].t = "str"
    /\ last.err.kind = "SyntaxError"
    /\ heap # last.pre

(***************************************************************************)
(* The Dict scenario: a program that holds some dicts and works on them.   *)
(***************************************************************************)
Keys == { String("x"), Int(1) }
Values == { Int(1), Int(2) }
Others == { Int(1), None }

Idle == [op |-> "idle", d |-> 0, key |-> Nil, arg |-> Nil, val |-> Nil, err |-> NoErr]

InitDict ==
    /\ heap = NewDict(<<>>).heap
    /\ last = Idle
    /\ copied = <<>>
    /\ env = Nil
    /\ fn = Nil
    /\ frames = <<>>
    /\ calls = <<>>

Done(op, d, key, arg, r) ==
    /\ heap' = r.heap
    /\ last' = [op |-> op, d |-> d, key |-> key, arg |-> arg, val |-> r.val, err |-> r.err]
    /\ UNCHANGED <<env, fn, frames, calls>>

DictSet ==
    /\ last.op = "idle"
    /\ \E d \in DOMAIN heap, k \in Keys, v \in Values :
          Done("Set", d, k, v, M__setitem__(d, k, v, heap))
    /\ UNCHANGED copied

DictDelete ==
    /\ last.op = "idle"
    /\ \E d \in DOMAIN heap, k \in Keys : Done("Delete", d, k, Nil, Delete(d, k, heap))
    /\ UNCHANGED copied

DictGet ==
    /\ last.op = "idle"
    /\ \E d \in DOMAIN heap, k \in Keys : Done("Get", d, k, Nil, M__getitem__(d, k, heap))
    /\ UNCHANGED copied

DictContains ==
    /\ last.op = "idle"
    /\ \E d \in DOMAIN heap, k \in Keys :
          Done("Contains", d, k, Nil, M__contains__(d, k, heap))
    /\ UNCHANGED copied

DictEq ==
    /\ last.op = "idle"
    /\ \E d \in DOMAIN heap, o \in Others \cup { Dict(r) : r \in DOMAIN heap } :
          Done("Eq", d, Nil, o, M__eq__(d, o, heap))
    /\ UNCHANGED copied

DictNe ==
    /\ last.op = "idle"
    /\ \E d \in DOMAIN heap, o \in Others \cup { Dict(r) : r \in DOMAIN heap } :
          Done("Ne", d, Nil, o, M__ne__(d, o, heap))
    /\ UNCHANGED copied

\* d2 := d1.Copy(); copied remembers the pair
DictCopy ==
    /\ last.op = "idle"
    /\ Len(heap) < MaxDicts
    /\ \E d \in DOMAIN heap :
          LET r == Copy(d, heap)
          IN  /\ Done("Copy", d, Nil, Nil, r)
              /\ copied' = <<d, r.val.n>>

DictContinue ==
    /\ last.op # "idle"
    /\ last' = Idle
    /\ UNCHANGED <<heap, copied, env, fn, frames, calls>>

NextDict ==
    \/ DictSet \/ DictDelete \/ DictGet \/ DictContains
    \/ DictEq \/ DictNe \/ DictCopy \/ DictContinue

SpecDict == InitDict /\ [][NextDict]_vars

(***************************************************************************)
(* Properties of Dict.                                                     *)
(***************************************************************************)
\* C3 as claimed: Get of a non-textual key that has been stored with Set
\* succeeds and returns the stored value, whereas Contains of a
\* non-textual key raises KeyError whether or not the key is present.
C3_GetContainsAsymmetry ==
    /\ (last.op = "Get" /\ last.key.t # "str" /\ MapHas(heap[last.d], last.key)) =>
          /\ last.err = NoErr
          /\ last.val = heap[last.d][last.key]
    /\ (last.op = "Contains" /\ last.key.t # "str") => last.err.kind = "KeyError"

\* what the code does instead: Get of a non-textual key raises KeyError
\* even though Set has stored it; the Contains half is as claimed
C3_GetRejectsNonTextual ==
    /\ (last.op = "Get" /\ last.key.t # "str") =>
          last.err.kind = "KeyError" /\ last.val = Nil
    /\ (last.op = "Contains" /\ last.key.t # "str") =>
          last.err.kind = "KeyError" /\ last.val = Nil

\* Get of the stored key 1
C3_Witness ==
    last.op = "Get" /\ last.key = Int(1) /\ MapHas(heap[last.d], Int(1))

\* C7: d2 := d1.Copy() holds the pairs of d1 and leaves d1 as it was; from
\* then on a Set or a key removal on d2 leaves d1 unchanged, and one on d1
\* leaves d2 unchanged.
C7_CopyIndependence ==
    [][ /\ last'.op = "Copy" =>
              /\ heap'[copied'[2]] = heap[copied'[1]]
              /\ heap'[copied'[1]] = heap[copied'[1]]
        /\ (copied # <<>> /\ last'.op \in {"Set", "Delete"}) =>
              /\ last'.d = copied[2] => heap'[copied[1]] = heap[copied[1]]
              /\ last'.d = copied[1] => heap'[copied[2]] = heap[copied[2]]
      ]_vars

\* the copy has been given a key its source does not have
C7_Witness ==
    /\ copied # <<>>
    /\ last.op = "Set" /\ last.d = copied[2]
    /\ MapLen(heap[copied[2]]) > MapLen(heap[copied[1]])

\* two dicts hold the same pairs: the same keys, with values that are
\* equal for py.Eq
SamePairs(a, b) ==
    /\ DOMAIN a = DOMAIN b
    /\ \A k \in DOMAIN a : Eq(a[k], b[k]) = True

\* C8: Dict equality answers True for two dicts holding the same pairs, in
\* either operand order and for a dict and itself, False for two dicts of
\* different length, and NotImplemented when the other operand is no Dict.
C8_MappingEquality ==
    /\ \A a \in DOMAIN heap, b \in DOMAIN heap :
          /\ SamePairs(heap[a], heap[b]) =>
                /\ M__eq__(a, Dict(b), heap).val = True
                /\ M__eq__(b, Dict(a), heap).val = True
          /\ MapLen(heap[a]) # MapLen(heap[b]) =>
                M__eq__(a, Dict(b), heap).val = False
    /\ \A a \in DOMAIN heap, o \in Others :
          M__eq__(a, o, heap) = Out(heap, NotImplemented, NoErr)
    /\ (last.op = "Eq" /\ last.arg.t = "dict") =>
          /\ last.err = NoErr
          /\ SamePairs(heap[last.d], heap[last.arg.n]) => last.val = True
          /\ MapLen(heap[last.d]) # MapLen(heap[last.arg.n]) => last.val = False

\* two distinct dicts with the same two pairs compared, and a third one
\* whose keys are a proper subset
C8_Witness ==
    /\ last.op = "Eq" /\ last.arg.t = "dict" /\ last.arg.n # last.d
    /\ MapLen(heap[last.d]) = 2
    /\ SamePairs(heap[last.d], heap[last.arg.n])
    /\ last.val = True
    /\ \E c \in DOMAIN heap : MapLen(heap[c]) = 1

(***************************************************************************)
(* The Function scenario: a function made by NewFunction, given its        *)
(* closure by the runtime, then called and assigned to.  The Evaluator runs *)
(* the body between M__call__ handing it the namespaces and its return; it *)
(* may store names, assign f.__code__ and call f again, so the calls in    *)
(* progress form a stack.                                                  *)
(***************************************************************************)
RECURSIVE Cells(_)
Cells(n) == IF n = 0 THEN <<>> ELSE Append(Cells(n - 1), None)

CodeValues == { Code(<<"const">>, n) : n \in 0..MaxFree }

InitFunc ==
    /\ \E g \in { EmptyMap, MapSet(EmptyMap, String("__name__"), String("mymod")) },
          qualname \in { "", "outer.f" },
          code \in CodeValues :
          LET made == NewFunction(code, "f", <<String("doc")>>, 1, qualname, <<g>>)
          IN  /\ heap = made.heap
              /\ fn = [made.f EXCEPT !.Closure =
                          IF code.n = 0 THEN Nil ELSE Tuple(Cells(code.n))]
    /\ last = [op |-> "idle", arg |-> Nil, err |-> NoErr, pre |-> Nil]
    /\ frames = <<>>
    /\ calls = <<>>
    /\ copied = <<>>
    /\ env = Nil

\* f.__code__ = value
FuncSetCode ==
    \E value \in CodeValues \cup { Int(5), None } :
        LET r == SetCode(fn, value)
        IN  /\ fn' = r.f
            /\ last' = [op |-> "SetCode", arg |-> value, err |-> r.err, pre |-> fn]
            /\ UNCHANGED <<heap, frames, calls, copied, env>>

\* f(...) is called, by the program or by the body of a call in progress
FuncCall ==
    /\ Len(calls) < MaxCalls
    /\ LET c == M__call__(fn, heap)
           frame == [code |-> c.code, globals |-> c.globals, locals |-> c.locals]
       IN  /\ heap' = c.heap
           /\ frames' = Append(frames, frame)
           /\ calls' = Append(calls, frame)
    /\ last' = [op |-> "Call", arg |-> Nil, err |-> NoErr, pre |-> fn]
    /\ UNCHANGED <<fn, copied, env>>

Top == frames[Len(frames)]

\* the body of the innermost call binds a local name
FuncStoreName ==
    /\ frames # <<>>
    /\ heap' = [heap EXCEPT ![Top.locals] = MapSet(@, String("x"), Int(Len(frames)))]
    /\ last' = [op |-> "StoreName", arg |-> Nil, err |-> NoErr, pre |-> fn]
    /\ UNCHANGED <<fn, frames, calls, copied, env>>

\* the body of the innermost call binds a global name
FuncStoreGlobal ==
    /\ frames # <<>>
    /\ heap' = [heap EXCEPT ![Top.globals] = MapSet(@, String("y"), Int(Len(frames)))]
    /\ last' = [op |-> "StoreGlobal", arg |-> Nil, err |-> NoErr, pre |-> fn]
    /\ UNCHANGED <<fn, frames, calls, copied, env>>

\* VmEvalCodeEx returns, with a result or an error, and M__call__ with it
FuncReturn ==
    /\ frames # <<>>
    /\ frames' = SubSeq(frames, 1, Len(frames) - 1)
    /\ \E err \in { NoErr, ExceptionNewf("RuntimeError", "", "raised by the body") } :
          last' = [op |-> "Return", arg |-> Nil, err |-> err, pre |-> fn]
    /\ UNCHANGED <<heap, fn, calls, copied, env>>

NextFunc == FuncSetCode \/ FuncCall \/ FuncStoreName \/ FuncStoreGlobal \/ FuncReturn

SpecFunc == InitFunc /\ [][NextFunc]_vars

\* C4: assigning to __code__ a value that is no code object raises
\* TypeError, a code object whose free-variable count differs from the
\* length of the closure raises ValueError, and either leaves Code and
\* every other field as they were; with equal counts Code is replaced and
\* nothing else.
C4_CodeClosureInvariant ==
    last.op = "SetCode" =>
        /\ last.arg.t # "code" =>
              last.err.kind = "TypeError" /\ fn = last.pre
        /\ (last.arg.t = "code" /\ last.arg.n # Len(last.pre.Closure.s)) =>
              last.err.kind = "ValueError" /\ fn = last.pre
        /\ (last.arg.t = "code" /\ last.arg.n = Len(last.pre.Closure.s)) =>
              /\ last.err = NoErr
              /\ fn = [last.pre EXCEPT !.Code = last.arg]

\* a code object with fewer free variables than the closure has cells
C4_Witness ==
    /\ last.op = "SetCode" /\ last.arg.t = "code"
    /\ last.arg.n < Len(last.pre.Closure.s)
    /\ last.err.kind = "ValueError"

\* C9: a call of the Function hands the Evaluator a locals mapping that is
\* new (no mapping that existed before, so the locals of no other call,
\* finished or in progress) and empty, and as globals the Function's own
\* Globals; it changes no field of the Function and no existing mapping.
\* What a call binds in its locals is bound in no other call's locals, and
\* every call, however late, has the one Globals mapping.
C9_CallNamespaces ==
    [][ /\ Len(calls') = Len(calls) + 1 =>
              LET c == calls'[Len(calls')]
              IN  /\ c.locals \notin DOMAIN heap
                  /\ heap'[c.locals] = EmptyMap
                  /\ \A i \in DOMAIN calls : calls[i].locals # c.locals
                  /\ c.locals \notin { fn.Globals, fn.Dict }
                  /\ c.globals = fn.Globals
                  /\ c.code = fn.Code
                  /\ fn' = fn
                  /\ \A r \in DOMAIN heap : heap'[r] = heap[r]
        /\ \A i \in DOMAIN calls' :
              /\ calls'[i].globals = fn'.Globals
              /\ \A j \in DOMAIN calls' : i # j => calls'[i].locals # calls'[j].locals
        /\ last'.op = "StoreName" =>
              \A r \in DOMAIN heap : r # frames[Len(frames)].locals => heap'[r] = heap[r]
      ]_vars

\* a call made while another is in progress, after both an earlier call
\* and the enclosing one have bound x and y
C9_Witness ==
    /\ Len(frames) = 2 /\ Len(calls) = 3 /\ last.op = "Call"
    /\ MapHas(heap[calls[1].locals], String("x"))
    /\ MapHas(heap[calls[2].locals], String("x"))
    /\ heap[calls[3].locals] = EmptyMap
    /\ MapHas(heap[fn.Globals], String("y"))

====
